---------------------------- MODULE Spec2Model ----------------------------
(***************************************************************************)
(* A model of the ghc-import gear (src/run.py) and of its predecessor      *)
(* script (src/script.py): the destination hierarchy resolution of         *)
(* Importer.create_target_hierarchy, the three import loops of main, and   *)
(* the series packaging of pkg_series / create_archive.                    *)
(*                                                                         *)
(* Strings are sequences of tokens.  The token "/" is the character the    *)
(* destination platform splits a lookup path on; Python's None is the one   *)
(* token string <<"None">>, which is also what str.format prints for it.   *)
(***************************************************************************)
EXTENDS Integers, Sequences, FiniteSets, TLC

VARIABLES
    fw_subjects,      \* destination platform: subjects of the project
    fw_sessions,      \* destination platform: sessions
    fw_acquisitions,  \* destination platform: acquisitions
    fw_files,         \* destination platform: uploaded files
    pc,               \* per importer process: position in the import of one item
    cur,              \* per importer process: metadata of the item in hand
    subject,          \* per importer process: create_target_hierarchy's subject
    session,          \* per importer process: create_target_hierarchy's session
    acq,              \* per importer process: create_target_hierarchy's acq
    matched,          \* per importer process: len(subjects) seen by the query
    added,            \* per importer process: levels created by the running call
    seen,             \* per importer process: platform size at the last lookup
    importer,         \* main: which import_data loop is running
    refs,             \* main: object references the running loop has not taken yet
    budget,           \* items the environment still hands out
    exc,              \* per importer process: the exception raised, if any
    returned,         \* history: (metadata, hierarchy) of completed calls
    stopped,          \* history: metadata of calls that stopped after creating
    series,           \* dicom loop: the series in hand, as downloaded, and the
                      \* archives its upload loop has taken
    dir,              \* pkg_series: files still in the series directory
    staging,          \* pkg_series: files moved to the staging subdirectories
    acquisitions,     \* pkg_series: acq_no, arcdir_path, metadata per acquisition
    archives,         \* pkg_series: archives written (path, members, comment)
    metadata_map,     \* pkg_series: arc_path -> metadata
    pkg,              \* pkg_series: position ("idle","files","archives",...)
    adapter           \* FHIRResource(...): the constructor calls under way

vars == <<fw_subjects, fw_sessions, fw_acquisitions, fw_files, pc, cur, subject,
          session, acq, matched, added, seen, exc, importer, refs, budget,
          returned, stopped, series, dir, staging, acquisitions, archives,
          metadata_map, pkg, adapter>>

platformVars == <<fw_subjects, fw_sessions, fw_acquisitions, fw_files>>
procVars     == <<pc, cur, subject, session, acq, matched, added, seen, exc>>
mainVars     == <<importer, refs, budget>>
histVars     == <<returned, stopped>>
pkgVars      == <<series, dir, staging, acquisitions, archives, metadata_map, pkg>>

---------------------------------------------------------------------------
(* Bounds of the model. *)

\* Object references (messages, resources, series) handed to the gear in a behaviour.
MaxItems == 2
\* Object references per import_data list.
MaxRefs == 2

---------------------------------------------------------------------------
(* Strings. *)

None == <<"None">>

Truthy(s) == s # None /\ s # <<>>

RECURSIVE Split(_)
\* str.split('/') as the platform's path resolver applies it.
Split(s) ==
    IF \A i \in 1..Len(s) : s[i] # "/" THEN <<s>>
    ELSE LET k == CHOOSE i \in 1..Len(s) :
                      s[i] = "/" /\ \A j \in 1..(i-1) : s[j] # "/"
         IN  <<SubSeq(s, 1, k-1)>> \o Split(SubSeq(s, k+1, Len(s)))

---------------------------------------------------------------------------
(* The destination platform (flywheel client calls of src/run.py). *)

Procs == {"A", "B"}
Main  == "A"

NoNode == [level |-> "none", n |-> 0]
Node(level, n) == [level |-> level, n |-> n]

Indexes(seq) == 1..Len(seq)

Min(S) == CHOOSE x \in S : \A y \in S : x <= y

\* get_project_subjects(project, filter='master_code=' + code)
ProjectSubjects(code) ==
    {i \in Indexes(fw_subjects) : fw_subjects[i].master_code = code}

SessionsOf(subj, label) ==
    {i \in Indexes(fw_sessions) :
        fw_sessions[i].subject = subj /\ fw_sessions[i].label = label}

AcquisitionsOf(sess, label) ==
    {i \in Indexes(fw_acquisitions) :
        fw_acquisitions[i].session = sess /\ fw_acquisitions[i].label = label}

\* fw_client.lookup('<group>/<id:project>/<id:subject>/' + rest): the resolver
\* splits the path on "/" and walks session, then acquisition; a path that
\* names nothing raises ApiException (NoNode here).
Resolve(subj, rest) ==
    LET segs == Split(rest)
        ss   == SessionsOf(subj.n, segs[1])
    IN  IF subj.level # "subject" \/ ss = {} THEN NoNode
        ELSE IF Len(segs) = 1 THEN Node("session", Min(ss))
        ELSE LET as == AcquisitionsOf(Min(ss), segs[2])
             IN  IF as = {} \/ Len(segs) > 2 THEN NoNode
                 ELSE Node("acquisition", Min(as))

---------------------------------------------------------------------------
(* Importer: the identity exchange and create_target_hierarchy, one action *)
(* per external call.  p is the importer process making the call.          *)

NoMeta == [kind |-> "none"]

HasAcquisition(meta) == meta.acquisition # None

\* The pseudonymization service: one code per identity, derived from the
\* patient id, or from name and date of birth when use_patient_id is false.
IdentityService(payload) ==
    IF payload.use_patient_id THEN <<"mc">> \o payload.patient_id
    ELSE <<"mc">> \o payload.first_name \o payload.date_of_birth

\* The identity payload each import_data builds for its item.
subj_code_payload(meta) ==
    IF meta.kind = "dicom"
    THEN [patient_id |-> meta.patient_id, first_name |-> None, last_name |-> None,
          date_of_birth |-> None, use_patient_id |-> TRUE]
    ELSE [patient_id |-> meta.patient_id, first_name |-> meta.firstname,
          last_name |-> meta.lastname, date_of_birth |-> meta.dob,
          use_patient_id |-> Truthy(meta.patient_id)]

\* A resolver that settles an ambiguous identity by taking the first match.
FirstSubjectByMasterCode(code) ==
    LET subjects == ProjectSubjects(code)
    IN  IF subjects # {}
        THEN [raise |-> FALSE, subject |-> Node("subject", Min(subjects))]
        ELSE [raise |-> FALSE, subject |-> NoNode]

\* Importer._get_subject_by_master_code
get_subject_by_master_code(code) ==
    LET subjects == ProjectSubjects(code)
    IN  IF Cardinality(subjects) > 1
        THEN [raise |-> TRUE, subject |-> NoNode]
        ELSE IF Cardinality(subjects) = 1
        THEN [raise |-> FALSE, subject |-> Node("subject", Min(subjects))]
        ELSE [raise |-> FALSE, subject |-> NoNode]

\* metadata['session']['subject'] of an item.
SubjectOf(meta) ==
    [master_code |-> meta.master_code, code |-> meta.code, firstname |-> meta.firstname]

\* The keys of the merge loop that the model's subjects carry.
MergeKeys == {"code", "firstname"}

\* subject_meta after the merge loop: a key that both the subject found and
\* the item carry is deleted (None here); existing is NoNode when no subject
\* was found.
subject_meta(existing, fresh) ==
    [k \in DOMAIN fresh |->
        IF k \in MergeKeys /\ existing # NoNode /\ Truthy(existing[k]) /\ Truthy(fresh[k])
        THEN None
        ELSE fresh[k]]

\* An else branch that writes the item's subject over the one found.
Overwritten(existing, meta) == meta

\* The else branch of "if not subject": pass ("TODO: just update metadata").
UpdateOnMatch(existing, meta) == existing

\* A create_target_hierarchy that creates the subject whatever it found.
AlwaysCreateSubject(subj) == TRUE

\* "if not subject": create_target_hierarchy creates the subject.
MustCreateSubject(subj) == subj = NoNode

\* The format strings of the two lookups, after '<group>/<id:project>/<id:subject>/'.
SessionPath(meta) == meta.label
AcquisitionPath(meta) == meta.label \o <<"/">> \o meta.acquisition

\* A lookup that never finds.
LookupAlwaysRaised(node) == TRUE

\* What the except branch of a lookup decides on: the lookup raised.
LookupRaised(node) == node = NoNode

\* An import that uploads as soon as the session is there.
StraightToUpload(meta) == "upload"

AfterSession(meta) ==
    IF HasAcquisition(meta) THEN "lookup_acquisition" ELSE "upload"

Hierarchy(p) == [subject |-> subject[p], session |-> session[p], acquisition |-> acq[p]]

\* An exception leaves create_target_hierarchy after it created something.
StoppedAfter(p) ==
    IF added[p] # {} THEN stopped \cup {cur[p]} ELSE stopped

\* The locals of one loop iteration, gone when it ends.
Forget(p) ==
    /\ cur' = [cur EXCEPT ![p] = NoMeta]
    /\ subject' = [subject EXCEPT ![p] = NoNode]
    /\ session' = [session EXCEPT ![p] = NoNode]
    /\ acq' = [acq EXCEPT ![p] = NoNode]
    /\ matched' = [matched EXCEPT ![p] = 0]
    /\ added' = [added EXCEPT ![p] = {}]
    /\ seen' = [seen EXCEPT ![p] = 0]

Raise(p, e) ==
    /\ pc' = [pc EXCEPT ![p] = "raised"]
    /\ exc' = [exc EXCEPT ![p] = e]

master_code(p) ==
    /\ pc[p] = "master_code"
    /\ cur' = [cur EXCEPT ![p].master_code = IdentityService(subj_code_payload(cur[p]))]
    /\ pc' = [pc EXCEPT ![p] = "get_subject"]
    /\ UNCHANGED <<adapter, platformVars, subject, session, acq, matched, added, seen, exc,
                   mainVars, histVars, pkgVars>>

get_subject(p) ==
    /\ pc[p] = "get_subject"
    /\ LET r == get_subject_by_master_code(cur[p].master_code)
       IN  /\ matched' = [matched EXCEPT ![p] = Cardinality(ProjectSubjects(cur[p].master_code))]
           /\ subject' = [subject EXCEPT ![p] = r.subject]
           /\ IF r.raise
              THEN /\ Raise(p, "TooManySubjects")
                   /\ fw_subjects' = fw_subjects
              ELSE /\ pc' = [pc EXCEPT ![p] =
                               IF MustCreateSubject(r.subject) THEN "add_subject"
                               ELSE "lookup_session"]
                   /\ exc' = exc
                   /\ fw_subjects' =
                        IF r.subject = NoNode THEN fw_subjects
                        ELSE [fw_subjects EXCEPT ![r.subject.n] =
                                UpdateOnMatch(@, subject_meta(@, SubjectOf(cur[p])))]
    /\ UNCHANGED <<adapter, fw_sessions, fw_acquisitions, fw_files, cur, session, acq, added, seen,
                   mainVars, histVars, pkgVars>>

add_subject(p) ==
    /\ pc[p] = "add_subject"
    /\ fw_subjects' = Append(fw_subjects, subject_meta(NoNode, SubjectOf(cur[p])))
    /\ subject' = [subject EXCEPT ![p] = Node("subject", Len(fw_subjects) + 1)]
    /\ added' = [added EXCEPT ![p] = @ \cup {"subject"}]
    /\ pc' = [pc EXCEPT ![p] = "lookup_session"]
    /\ UNCHANGED <<adapter, fw_sessions, fw_acquisitions, fw_files, cur, session, acq, matched,
                   seen, exc, mainVars, histVars, pkgVars>>

lookup_session(p) ==
    /\ pc[p] = "lookup_session"
    /\ LET node == Resolve(subject[p], SessionPath(cur[p]))
       IN  /\ session' = [session EXCEPT ![p] = node]
           /\ pc' = [pc EXCEPT ![p] =
                       IF LookupRaised(node) THEN "add_session" ELSE AfterSession(cur[p])]
    /\ seen' = [seen EXCEPT ![p] = Len(fw_sessions)]
    /\ UNCHANGED <<adapter, platformVars, cur, subject, acq, matched, added, exc, mainVars,
                   histVars, pkgVars>>

\* add_session(body=payload): the payload names the project and embeds the
\* subject (with its master_code), not the subject's id; the platform files the
\* session under a subject of the project with that master_code.
add_session(p) ==
    /\ pc[p] = "add_session"
    /\ \E s \in ProjectSubjects(cur[p].master_code) :
          fw_sessions' = Append(fw_sessions,
                                [subject |-> s, label |-> cur[p].label, seen |-> seen[p]])
    /\ session' = [session EXCEPT ![p] = Node("session", Len(fw_sessions) + 1)]
    /\ added' = [added EXCEPT ![p] = @ \cup {"session"}]
    /\ pc' = [pc EXCEPT ![p] = AfterSession(cur[p])]
    /\ UNCHANGED <<adapter, fw_subjects, fw_acquisitions, fw_files, cur, subject, acq, matched,
                   seen, exc, mainVars, histVars, pkgVars>>

lookup_acquisition(p) ==
    /\ pc[p] = "lookup_acquisition"
    /\ LET node == Resolve(subject[p], AcquisitionPath(cur[p]))
       IN  /\ acq' = [acq EXCEPT ![p] = node]
           /\ pc' = [pc EXCEPT ![p] =
                       IF LookupRaised(node) THEN "add_acquisition" ELSE "upload"]
    /\ seen' = [seen EXCEPT ![p] = Len(fw_acquisitions)]
    /\ UNCHANGED <<adapter, platformVars, cur, subject, session, matched, added, exc, mainVars,
                   histVars, pkgVars>>

\* copy.deepcopy(metadata['acquisition'])
AcquisitionOf(meta) == [label |-> meta.acquisition, files |-> meta.files]

\* A payload sent as it was copied.
KeepFiles(payload) == payload

\* if 'files' in payload: del payload['files']
StripFiles(payload) == [payload EXCEPT !.files = <<>>]

\* add_acquisition(body=payload) with payload['session'] = session['_id']: the
\* platform refuses a parent id that is not a session's.
add_acquisition(p) ==
    /\ pc[p] = "add_acquisition"
    /\ IF session[p].level = "session"
       THEN /\ fw_acquisitions' = Append(fw_acquisitions,
                                         LET payload == StripFiles(AcquisitionOf(cur[p]))
                                         IN  [session |-> session[p].n,
                                              label |-> payload.label,
                                              files |-> payload.files,
                                              seen |-> seen[p]])
            /\ acq' = [acq EXCEPT ![p] = Node("acquisition", Len(fw_acquisitions) + 1)]
            /\ added' = [added EXCEPT ![p] = @ \cup {"acquisition"}]
            /\ pc' = [pc EXCEPT ![p] = "upload"]
            /\ UNCHANGED <<exc, stopped>>
       ELSE /\ Raise(p, "ApiException")
            /\ stopped' = StoppedAfter(p)
            /\ UNCHANGED <<fw_acquisitions, acq, added>>
    /\ UNCHANGED <<adapter, fw_subjects, fw_sessions, fw_files, cur, subject, session, matched,
                   seen, mainVars, returned, pkgVars>>

\* The node import_data uploads to: hierarchy[collection].
UploadTarget(p) ==
    CASE cur[p].collection = "subject" -> subject[p]
      [] cur[p].collection = "session" -> session[p]
      [] OTHER -> acq[p]

\* The comment of the file uploaded: that of the archive at filepath on the
\* imaging path; a message or a resource is uploaded without one.
UploadComment(p) ==
    IF cur[p].kind = "dicom"
    THEN (CHOOSE z \in archives : z.path = cur[p].filename).comment
    ELSE NoMeta

Returned(p) == returned \cup {[metadata |-> cur[p], hierarchy |-> Hierarchy(p)]}

\* upload_file_to_<collection>(hierarchy[collection], file, metadata=...)
upload_file(p) ==
    /\ pc[p] = "upload"
    /\ returned' = Returned(p)
    /\ IF UploadTarget(p).level = cur[p].collection
       THEN /\ fw_files' = fw_files \cup {[node |-> UploadTarget(p),
                                            name |-> cur[p].filename,
                                            content |-> cur[p].content,
                                            source |-> cur[p].source,
                                            master_code |-> cur[p].master_code,
                                            comment |-> UploadComment(p)]}
            /\ pc' = [pc EXCEPT ![p] = "idle"]
            /\ exc' = exc
            /\ Forget(p)
       ELSE /\ Raise(p, "ApiException")
            /\ fw_files' = fw_files
            /\ UNCHANGED <<cur, subject, session, acq, matched, added, seen>>
    /\ UNCHANGED <<adapter, fw_subjects, fw_sessions, fw_acquisitions, mainVars, stopped, pkgVars>>

CallStates == {"master_code", "get_subject", "add_subject", "lookup_session",
               "add_session", "lookup_acquisition", "add_acquisition", "upload"}

HierarchyStates == CallStates \ {"master_code", "upload"}

\* An external call fails (network, service down): the exception is not caught
\* by import_data and ends the item where it stands.
upstream_error(p) ==
    /\ pc[p] \in CallStates
    /\ Raise(p, "UpstreamServiceError")
    /\ stopped' = IF pc[p] \in HierarchyStates THEN StoppedAfter(p) ELSE stopped
    /\ returned' = IF pc[p] = "upload" THEN Returned(p) ELSE returned
    /\ UNCHANGED <<adapter, platformVars, cur, subject, session, acq, matched, added, seen,
                   mainVars, pkgVars>>

---------------------------------------------------------------------------
(* Source adapters and get_metadata. *)

\* Python's "a or b or c": the first truthy operand, else the last one.
Or3(a, b, c) == IF Truthy(a) THEN a ELSE IF Truthy(b) THEN b ELSE c

\* HL7Message.__init__ raises: 'ex' + None, or strptime(None, ...).
HL7Raises(msg) ==
    \/ Or3(msg.f3, msg.f3_1, msg.f3_0_1) = None
    \/ msg.f7 = None

\* get_metadata(obj): the keys of the tree, those of the prefixed attributes
\* whose value is truthy.
get_metadata(attrs) == {k \in DOMAIN attrs : Truthy(attrs[k])}

\* HL7_SEX_MAPPING.get(code)
HL7_SEX_MAPPING(code) ==
    CASE code = <<"F">> -> <<"female">>
      [] code = <<"M">> -> <<"male">>
      [] code = <<"O">> -> <<"other">>
      [] code = <<"U">> -> <<"unknown">>
      [] OTHER -> None

\* HL7_ETHNIC_GROUP_MAP.get(code)
HL7_ETHNIC_GROUP_MAP(code) ==
    CASE code = <<"H">> -> <<"Hispanic or Latino">>
      [] code = <<"N">> -> <<"Not Hispanic or Latino">>
      [] code = <<"U">> -> <<"Unknown or Not Reported">>
      [] OTHER -> None

\* strptime(sendTime, '%Y-%m-%dT%H:%M:%SZ').strftime('%Y-%m-%d'): a send time
\* is <<date, "T", time of day, "Z">>.
SendDate(sendTime) == <<sendTime[1]>>

\* strptime(pid_segment.get('7'), '%Y%m%d'), then strftime('%Y-%m-%d'): a date
\* of birth is <<year, month, day>>.
FormatDob(f7) == <<f7[1], "-", f7[2], "-", f7[3]>>

RECURSIVE b64decode(_)
\* base64.b64decode(msg['data']): the data is a sequence of six-bit digits,
\* four of them hold three bytes.
b64decode(data) ==
    IF Len(data) < 4 THEN <<>>
    ELSE <<data[1] * 4 + data[2] \div 16,
           (data[2] % 16) * 16 + data[3] \div 4,
           (data[3] % 4) * 64 + data[4]>>
         \o b64decode(SubSeq(data, 5, Len(data)))

\* get_metadata(HL7Message(msg)) and what import_data takes from the message.
HL7Metadata(msg) ==
    LET patient_id == Or3(msg.f3, msg.f3_1, msg.f3_0_1)
    IN  [kind        |-> "hl7",
         patient_id  |-> patient_id,
         firstname   |-> msg.f5_1,
         lastname    |-> msg.f5_2,
         sex         |-> HL7_SEX_MAPPING(msg.f8),
         ethnicity   |-> HL7_ETHNIC_GROUP_MAP(msg.f22),
         type        |-> IF Truthy(msg.f35) THEN None ELSE <<"human">>,
         dob         |-> FormatDob(msg.f7),
         code        |-> <<"ex">> \o patient_id,
         master_code |-> None,
         label       |-> <<"HL7_">> \o patient_id \o <<"_">> \o SendDate(msg.sendTime),
         session_timestamp     |-> msg.sendTime,
         acquisition           |-> msg.messageType,
         acquisition_timestamp |-> msg.sendTime,
         collection  |-> "acquisition",
         filename    |-> msg.controlId \o <<".hl7.txt">>,
         content     |-> b64decode(msg.data),
         source      |-> [kind |-> "hl7", controlId |-> msg.controlId, data |-> msg.data],
         files       |-> <<>>,
         present     |-> get_metadata(
                            [firstname |-> msg.f5_1,
                             lastname  |-> msg.f5_2,
                             sex       |-> HL7_SEX_MAPPING(msg.f8),
                             ethnicity |-> HL7_ETHNIC_GROUP_MAP(msg.f22),
                             type      |-> IF Truthy(msg.f35) THEN None ELSE <<"human">>,
                             code      |-> <<"ex">> \o patient_id,
                             label     |-> <<"HL7_">> \o patient_id \o <<"_">>
                                              \o SendDate(msg.sendTime),
                             session_timestamp     |-> msg.sendTime,
                             acquisition           |-> msg.messageType,
                             acquisition_timestamp |-> msg.sendTime])]

\* FHIRResource.__init__: the patient the resource belongs to, or none
\* ("SKIPPING" is logged and patient stays None).
FHIRHasPatient(res) ==
    \/ res.resourceType = <<"Patient">>
    \/ /\ Truthy(res.reference)
       /\ Split(res.reference)[1] = <<"Patient">>

\* import_data calls resource_obj.dob.strftime: dob is None without a patient.
FHIRRaises(res) == ~FHIRHasPatient(res)

\* An import that puts the file of every resource on an acquisition.
AlwaysAcquisition(resourceType) == "acquisition"

FHIRCollection(resourceType) ==
    IF resourceType = <<"Patient">> THEN "subject"
    ELSE IF resourceType = <<"Encounter">> THEN "session"
    ELSE "acquisition"

\* A file named by the resource type as the reference spells it.
AsSpelled(s) == s

\* resource_type.lower()
Lower(s) ==
    [i \in 1..Len(s) |->
        CASE s[i] = "Patient"   -> "patient"
          [] s[i] = "Encounter" -> "encounter"
          [] OTHER              -> s[i]]

\* The resource as the store returned it.
Raw(res) ==
    [id |-> res.id, meta |-> res.lastUpdated, resourceType |-> res.resourceType,
     subject |-> res.reference]

\* The keys of a resource, in the order sort_keys puts them.
KeyOrder == <<"id", "meta", "resourceType", "subject">>

\* json.dumps(resource, sort_keys=True, indent=4): one line per key, a key
\* and its value, in ascending order of the keys.
DumpsSorted(resource) ==
    LET keys == SelectSeq(KeyOrder, LAMBDA k : k \in DOMAIN resource)
    IN  [i \in 1..Len(keys) |-> [indent |-> 4, key |-> keys[i], value |-> resource[keys[i]]]]

FHIRMetadata(res) ==
    LET patient_id == res.patient.identifier
        keep == res.resourceType \notin {<<"Patient">>, <<"Encounter">>}
    IN  [kind        |-> "fhir",
         patient_id  |-> patient_id,
         firstname   |-> res.patient.given,
         lastname    |-> res.patient.family,
         dob         |-> res.patient.birthDate,
         code        |-> IF Truthy(patient_id) THEN <<"ex">> \o patient_id ELSE None,
         master_code |-> None,
         label       |-> <<"FHIR_">> \o patient_id \o <<"_">> \o res.lastUpdated,
         acquisition |-> IF keep THEN res.resourceType ELSE None,
         collection  |-> FHIRCollection(res.resourceType),
         filename    |-> (IF keep THEN res.id ELSE Lower(res.resourceType))
                            \o <<".fhir.json">>,
         content     |-> DumpsSorted(Raw(res)),
         source      |-> [kind |-> "fhir", raw |-> Raw(res)],
         files       |-> <<>>,
         \* del metadata['acquisition'] for Patient and Encounter
         present     |-> get_metadata(
                            [firstname   |-> res.patient.given,
                             code        |-> IF Truthy(patient_id) THEN <<"ex">> \o patient_id
                                             ELSE None,
                             label       |-> <<"FHIR_">> \o patient_id \o <<"_">>
                                                \o res.lastUpdated,
                             acquisition |-> res.resourceType])
                         \ (IF keep THEN {} ELSE {"acquisition"})]

---------------------------------------------------------------------------
(* pkg_series and create_archive (src/run.py; src/script.py is the same    *)
(* algorithm).  A file of the series directory is what DicomFile reads of  *)
(* it: name, acq_no, acquisition_uid, the attributes get_metadata reflects, *)
(* its size and its acquisition timestamp; ok is FALSE for a file that     *)
(* DicomFile cannot parse.                                                 *)

\* zip can't handle < 1980
ZipEpoch == 315561600

\* A clamp that lets every timestamp through.
Unclamped(a, b) == a

Max(a, b) == IF a >= b THEN a ELSE b

\* filename.startswith('(none)') -> filename.replace('(none)', 'NA')
SafeName(filename) ==
    IF Len(filename) > 0 /\ filename[1] = "(none)"
    THEN [i \in 1..Len(filename) |-> IF filename[i] = "(none)" THEN "NA" ELSE filename[i]]
    ELSE filename

\* os.path.join(path, '..', dcm.acquisition_uid + '.dicom')
ArcdirPath(dcm) == dcm.acquisition_uid \o <<".dicom">>

\* get_metadata(dcm) with patient_id and the session label set by pkg_series,
\* and the files entry added before the archive is written.
DicomMetadata(dcm) ==
    [kind        |-> "dicom",
     patient_id  |-> dcm.PatientID,
     firstname   |-> None,
     dob         |-> None,
     code        |-> dcm.subject_code,
     master_code |-> None,
     label       |-> dcm.StudyDescription,
     acquisition |-> dcm.acquisition_label,
     collection  |-> "acquisition",
     filename    |-> ArcdirPath(dcm) \o <<".zip">>,
     \* the file at filepath is uploaded as it is on disk
     content     |-> ArcdirPath(dcm) \o <<".zip">>,
     source      |-> [kind |-> "dicom", acquisition_uid |-> dcm.acquisition_uid],
     timestamp   |-> dcm.acquisition_timestamp,
     files       |-> <<>>,
     \* metadata['session']['label'] = dcm.get('StudyDescription'), whatever it is
     present     |-> get_metadata([code        |-> dcm.subject_code,
                                   acquisition |-> dcm.acquisition_label])
                     \cup {"label", "timestamp"}]

AcqNos == {a.acq_no : a \in acquisitions}

\* A parser that accepts every file.
ParsesAnything(dcm) == TRUE

\* DicomFile(filepath, parse=True) returns instead of raising.
Parses(dcm) == dcm.ok

\* The loop body of pkg_series for one file of os.listdir(path).
pkg_series_file ==
    /\ pkg = "files"
    /\ \E dcm \in dir :
          IF ~Parses(dcm)
          THEN \* DicomFile(filepath, parse=True) raises
               /\ pkg' = "raised"
               /\ UNCHANGED <<dir, staging, acquisitions>>
          ELSE IF /\ dcm.acq_no \notin AcqNos
                  /\ \E a \in acquisitions : a.arcdir_path = ArcdirPath(dcm)
          THEN \* os.mkdir(arcdir_path) raises FileExistsError
               /\ pkg' = "raised"
               /\ UNCHANGED <<dir, staging, acquisitions>>
          ELSE LET known == IF dcm.acq_no \in AcqNos THEN acquisitions
                            ELSE acquisitions \cup
                                   {[acq_no |-> dcm.acq_no,
                                     arcdir_path |-> ArcdirPath(dcm),
                                     metadata |-> DicomMetadata(dcm)]}
                   arcdir == (CHOOSE a \in known : a.acq_no = dcm.acq_no).arcdir_path
                   target == SafeName(dcm.name) \o <<".dcm">>
               IN  /\ acquisitions' = known
                   \* os.utime, then os.rename: an existing target is replaced
                   /\ staging' = {e \in staging : ~(e.arcdir = arcdir /\ e.name = target)}
                                 \cup {[arcdir |-> arcdir, name |-> target,
                                        src |-> dcm.name, size |-> dcm.size,
                                        mtime |-> Max(dcm.acquisition_timestamp, ZipEpoch)]}
                   /\ dir' = dir \ {dcm}
                   /\ pkg' = pkg
    /\ UNCHANGED <<adapter, platformVars, procVars, mainVars, histVars, series, archives,
                   metadata_map>>

\* The first loop of pkg_series is over.
pkg_series_sorted ==
    /\ pkg = "files"
    /\ dir = {}
    /\ pkg' = "archives"
    /\ UNCHANGED <<adapter, platformVars, procVars, mainVars, histVars, series, dir, staging,
                   acquisitions, archives, metadata_map>>

RECURSIVE Orders(_)
\* Every order in which a listing may come.
Orders(S) ==
    IF S = {} THEN {<<>>}
    ELSE UNION {{<<x>> \o o : o \in Orders(S \ {x})} : x \in S}

\* A listing left in the order os.listdir gave it.
Unsorted(S) == Orders(S)

\* files.sort(key=lambda f: os.path.getsize(f[1]))
SortedBySize(S) ==
    {o \in Orders(S) : \A i \in 1..(Len(o) - 1) : o[i].size <= o[i+1].size}

ArcPath(arcdir_path) == arcdir_path \o <<".zip">>

\* What zf.write keeps of a file's modification time: a zip member's time
\* is held in two-second units.
ZipTime(mtime) == 2 * (mtime \div 2)

\* zf.write(fp, os.path.join(arcname, fn)) for one file of the listing.
ZipMember(e) ==
    [name |-> e.name, arcdir |-> e.arcdir, src |-> e.src, size |-> e.size,
     mtime |-> e.mtime, date_time |-> ZipTime(e.mtime)]

Digit(d) == <<"0", "1", "2", "3", "4", "5", "6", "7", "8", "9">>[d + 1]

RECURSIVE Digits(_)
Digits(n) == IF n < 10 THEN <<Digit(n)>> ELSE Digits(n \div 10) \o <<Digit(n % 10)>>

\* datetime.isoformat() of a time localized to UTC.
IsoFormat(t) == Digits(t) \o <<"+00:00">>

\* An encoder that keeps the date and drops the time of day.
DateOnly(obj) == Digits(obj \div 86400)

\* metadata_encoder(obj) for a datetime.
metadata_encoder(obj) == IsoFormat(obj)

\* json.dumps(metadata, default=metadata_encoder): strings, lists and None
\* are JSON values as they are, a datetime goes through the encoder.
Dumps(metadata) == [metadata EXCEPT !.timestamp = metadata_encoder(@)]

\* metadata['acquisition']['files'] = [{'name': arc_name + '.zip', 'type': 'dicom'}]
FilesEntry(arcdir_path) == <<[name |-> ArcPath(arcdir_path), type |-> <<"dicom">>]>>

\* create_archive(content, arcname, metadata): the archive written.
create_archive(arcdir_path, members, metadata) ==
    [path |-> ArcPath(arcdir_path),
     members |-> [i \in 1..Len(members) |-> ZipMember(members[i])],
     comment |-> Dumps(metadata)]

\* The loop body of the second loop of pkg_series for one acquisition.
pkg_series_archive ==
    /\ pkg = "archives"
    /\ \E a \in acquisitions :
          /\ ArcPath(a.arcdir_path) \notin {z.path : z \in archives}
          /\ \E members \in SortedBySize({e \in staging : e.arcdir = a.arcdir_path}) :
                archives' = {z \in archives : z.path # ArcPath(a.arcdir_path)}
                            \cup {create_archive(a.arcdir_path, members,
                                                 [a.metadata EXCEPT
                                                     !.files = FilesEntry(a.arcdir_path)])}
          \* shutil.rmtree(arcdir_path)
          /\ staging' = {e \in staging : e.arcdir # a.arcdir_path}
          /\ metadata_map' = {m \in metadata_map : m.path # ArcPath(a.arcdir_path)}
                               \cup {[path |-> ArcPath(a.arcdir_path),
                                      metadata |-> [a.metadata EXCEPT
                                          !.files = FilesEntry(a.arcdir_path)]]}
    /\ UNCHANGED <<adapter, platformVars, procVars, mainVars, histVars, series, dir, acquisitions,
                   pkg>>

\* return metadata_map
pkg_series_return ==
    /\ pkg = "archives"
    /\ \A a \in acquisitions : ArcPath(a.arcdir_path) \in {z.path : z \in archives}
    /\ pkg' = "returned"
    /\ UNCHANGED <<adapter, platformVars, procVars, mainVars, histVars, series, dir, staging,
                   acquisitions, archives, metadata_map>>

---------------------------------------------------------------------------
(* What the healthcare data store holds. *)

PatientIds == {<<"p1">>, <<"p2">>}

\* HL7_MESSAGE of the tests: PID 3.1, 5.1, 5.2, 7 and 8 are there, 3, 22
\* and 35 are not.
ExampleMessage ==
    [f3 |-> None, f3_1 |-> <<"MRN-ZEN3H">>, f3_0_1 |-> None,
     f5_1 |-> <<"Firstname">>, f5_2 |-> <<"Lastname">>, f7 |-> <<"1972", "04", "17">>,
     f8 |-> <<"F">>, f22 |-> None, f35 |-> None,
     sendTime |-> <<"2018-07-10", "T", "06:54:58", "Z">>,
     messageType |-> <<"ORU">>, controlId |-> <<"51681348">>,
     data |-> <<19, 21, 13, 8>>]

HL7Messages ==
    {[f3 |-> a, f3_1 |-> b, f3_0_1 |-> None, f5_1 |-> <<"Ann">>, f5_2 |-> <<"Lee">>,
      f7 |-> d, f8 |-> s, f22 |-> <<"H">>, f35 |-> None,
      sendTime |-> <<"2018-07-10", "T", "06:54:58", "Z">>,
      messageType |-> <<"ORU">>, controlId |-> <<"m1">>, data |-> <<19, 21, 13, 8>>] :
        a \in {None, <<"p2">>}, b \in {None, <<"p1">>},
        d \in {None, <<"1972", "04", "17">>}, s \in {<<"F">>, <<"X">>}}
    \cup {ExampleMessage}

FHIRPatients ==
    {[identifier |-> i, given |-> <<"Ann">>, family |-> <<"Lee">>,
      birthDate |-> <<"1972">>] :
        i \in {<<"p1">>, None}}

\* A Patient resource refers to no patient.
FHIRResources ==
    {[resourceType |-> <<"Patient">>, id |-> <<"r1">>, reference |-> None,
      patient |-> pat, lastUpdated |-> <<"d1">>] : pat \in FHIRPatients}
    \cup
    {[resourceType |-> t, id |-> <<"r1">>, reference |-> r, patient |-> pat,
      lastUpdated |-> <<"d1">>] :
        t \in {<<"Encounter">>, <<"Observation">>},
        r \in {None, <<"Patient", "/", "x">>, <<"Group", "/", "g">>},
        pat \in FHIRPatients}

File(name, acq_no, uid, ok, size, time, study) ==
    [name |-> name, acq_no |-> acq_no, acquisition_uid |-> uid, ok |-> ok,
     size |-> size, acquisition_timestamp |-> time,
     PatientID |-> <<"p1">>, subject_code |-> <<"p1">>,
     StudyDescription |-> study, acquisition_label |-> <<"T1">>]

Uid(acq_no) == IF acq_no = 1 THEN <<"u1">> ELSE <<"u2">>

StudyDescriptions == {<<"Brain">>, <<"Brain", "/", "T1">>, None}

\* The series the dicom store serves to the import loop.
StoreSeries ==
    UNION {
      { {File(<<"x">>, 1, Uid(1), ok, 1, ZipEpoch, study)} : ok \in BOOLEAN }
      \cup
      { {File(<<"x">>, 1, Uid(1), TRUE, 1, ZipEpoch, study),
         File(<<"y">>, a, Uid(a), ok, 1, ZipEpoch, study)} :
           a \in {1, 2}, ok \in BOOLEAN }
      : study \in StudyDescriptions }
    \* a file without the PatientID element: dcm.get('PatientID') is None
    \cup { {[File(<<"x">>, 1, Uid(1), TRUE, 1, ZipEpoch, <<"Brain">>)
               EXCEPT !.PatientID = None]} }

---------------------------------------------------------------------------
(* main and the import_data loops. *)

\* No series in hand: id is the series' place in the list, dirs the
\* temporary directories there are on disk.
NoSeries == [open |-> FALSE, listing |-> {}, taken |-> {}, id |-> 0, dirs |-> {}]

\* A directory made by mkdtemp, which nobody removes.
LeftBehind(dirs, id) == dirs

\* TemporaryDirectory.__exit__: the directory and all in it are removed.
Cleanup(dirs, id) == dirs \ {id}

\* The working directory of a series is gone (the with block is left, by
\* its end or by an exception).
RemoveTempdir ==
    /\ series' = [NoSeries EXCEPT !.dirs = Cleanup(series.dirs, series.id)]
    /\ dir' = {}
    /\ staging' = {}
    /\ acquisitions' = {}
    /\ archives' = {}
    /\ metadata_map' = {}
    /\ pkg' = "idle"

\* sorted(metadata_map.items()): paths differ in the acquisition uid.
PathRank(path) == IF path[1] = "u1" THEN 1 ELSE 2

\* DicomImporter.import_data, one series: download and call pkg_series.
dicom_import_series ==
    /\ importer = "dicom"
    /\ pc[Main] = "idle"
    /\ pkg = "idle"
    /\ refs > 0
    /\ refs' = refs - 1
    /\ budget' = budget
    /\ \E files \in StoreSeries :
          /\ series' = [open |-> TRUE, listing |-> files, taken |-> {}, id |-> refs,
                        dirs |-> series.dirs \cup {refs}]
          /\ dir' = files
    /\ pkg' = "files"
    /\ UNCHANGED <<adapter, platformVars, procVars, importer, histVars, staging, acquisitions,
                   archives, metadata_map>>

\* The upload loop of DicomImporter.import_data takes the next archive.
dicom_next_archive ==
    /\ importer = "dicom"
    /\ pc[Main] = "idle"
    /\ pkg = "returned"
    /\ \E m \in metadata_map :
          /\ m.path \notin series.taken
          /\ \A o \in metadata_map :
                o.path \notin series.taken => PathRank(m.path) <= PathRank(o.path)
          /\ series' = [series EXCEPT !.taken = @ \cup {m.path}]
          /\ cur' = [cur EXCEPT ![Main] = m.metadata]
    /\ pc' = [pc EXCEPT ![Main] = "master_code"]
    /\ UNCHANGED <<adapter, platformVars, subject, session, acq, matched, added, seen, exc,
                   mainVars, histVars, dir, staging, acquisitions, archives,
                   metadata_map, pkg>>

\* Every archive of the series is uploaded: the with block is left.
dicom_series_done ==
    /\ importer = "dicom"
    /\ pc[Main] = "idle"
    /\ pkg = "returned"
    /\ \A m \in metadata_map : m.path \in series.taken
    /\ RemoveTempdir
    /\ UNCHANGED <<adapter, platformVars, procVars, mainVars, histVars>>

Loops == {"dicom", "hl7", "fhir"}

NextImporter(i) ==
    CASE i = "dicom" -> "hl7"
      [] i = "hl7"   -> "fhir"
      [] OTHER       -> "finished"

\* The lists main reads from object_references: how many references the
\* next loop gets, out of what the environment still hands out.
ListSizes == 0..(IF budget < MaxRefs THEN budget ELSE MaxRefs)

\* main(context): the gear is started; DicomImporter.import_data comes first.
main_start ==
    /\ importer \in {"none", "finished", "aborted"}
    /\ budget > 0
    /\ \E n \in ListSizes : refs' = n /\ budget' = budget - n
    /\ importer' = "dicom"
    /\ pc' = [pc EXCEPT ![Main] = "idle"]
    /\ exc' = [exc EXCEPT ![Main] = "none"]
    /\ UNCHANGED <<adapter, platformVars, cur, subject, session, acq, matched, added, seen,
                   histVars, pkgVars>>

\* An import_data loop has nothing (left) to import and returns; main calls
\* the next importer with its list.
import_data_return ==
    /\ importer \in Loops
    /\ pc[Main] = "idle"
    /\ pkg = "idle"
    /\ refs = 0
    /\ importer' = NextImporter(importer)
    /\ IF importer' \in Loops
       THEN \E n \in ListSizes : refs' = n /\ budget' = budget - n
       ELSE refs' = 0 /\ budget' = budget
    /\ UNCHANGED <<adapter, platformVars, procVars, histVars, pkgVars>>

\* HL7Importer.import_data, one message: fetch, HL7Message, get_metadata.
hl7_import_data ==
    /\ importer = "hl7"
    /\ pc[Main] = "idle"
    /\ refs > 0
    /\ refs' = refs - 1
    /\ budget' = budget
    /\ \E msg \in HL7Messages :
          IF HL7Raises(msg)
          THEN /\ Raise(Main, "TypeError")
               /\ cur' = [cur EXCEPT ![Main] = NoMeta]
          ELSE /\ cur' = [cur EXCEPT ![Main] = HL7Metadata(msg)]
               /\ pc' = [pc EXCEPT ![Main] = "master_code"]
               /\ exc' = exc
    /\ UNCHANGED <<adapter, platformVars, subject, session, acq, matched, added, seen, importer,
                   histVars, pkgVars>>

\* FHIRImporter.import_data, one resource: read, FHIRResource, get_metadata.
fhir_import_data ==
    /\ importer = "fhir"
    /\ pc[Main] = "idle"
    /\ refs > 0
    /\ refs' = refs - 1
    /\ budget' = budget
    /\ \E res \in FHIRResources :
          IF FHIRRaises(res)
          THEN /\ Raise(Main, "AttributeError")
               /\ cur' = [cur EXCEPT ![Main] = NoMeta]
          ELSE /\ cur' = [cur EXCEPT ![Main] = FHIRMetadata(res)]
               /\ pc' = [pc EXCEPT ![Main] = "master_code"]
               /\ exc' = exc
    /\ UNCHANGED <<adapter, platformVars, subject, session, acq, matched, added, seen, importer,
                   histVars, pkgVars>>

\* An exception no import_data catches unwinds the loop and main.
unwind ==
    /\ importer \in Loops
    /\ pc[Main] = "raised" \/ pkg = "raised"
    /\ importer' = "aborted"
    /\ Forget(Main)
    /\ pc' = [pc EXCEPT ![Main] = "raised"]
    /\ exc' = [exc EXCEPT ![Main] = IF pkg = "raised" THEN "PackagingError" ELSE @]
    /\ RemoveTempdir
    /\ UNCHANGED <<adapter, platformVars, refs, budget, histVars>>

---------------------------------------------------------------------------
(* FHIRResource.__init__, one action per step of the constructor: the      *)
(* patient of the resource, with the read of the referenced Patient and    *)
(* the nested constructor call, then the fields and the Observation        *)
(* section.  A coding's display of None is a coding without the key.       *)

\* Constructor calls nested in one another.
MaxDepth == 3

Loinc == <<"http://loinc.org">>

\* LoincTableCore.csv
LoincTable == {[LOINC_NUM |-> <<"15074-8">>, SHORTNAME |-> <<"Glucose Bld-sCnc">>]}

\* FHIRResource._get_loinc_number_details: the rows of that number (the
\* first is returned, None when there is none).
get_loinc_number_details(loinc_number) ==
    {row \in LoincTable : row.LOINC_NUM = loinc_number}

NoResource == [resourceType |-> None]

NoQuantity == [value |-> None, unit |-> None]

\* str.replace('/', '_')
Underscored(s) == [i \in 1..Len(s) |-> IF s[i] = "/" THEN "_" ELSE s[i]]

\* "if self.type == 'Patient' ... else": the constructor reads the referenced
\* Patient from the store.
ReadsPatient(raw) ==
    /\ raw.resourceType # <<"Patient">>
    /\ Truthy(raw.reference)
    /\ Split(raw.reference)[1] = <<"Patient">>

\* The Observation specific section of the constructor.
ObservationSection(raw) ==
    LET loinc_coding == SelectSeq(raw.coding, LAMBDA c : c.system = Loinc)
        plain == [raise |-> "none", acquisition_label |-> raw.resourceType,
                  keys |-> {}, observations |-> <<>>]
    IN  IF raw.resourceType # <<"Observation">> \/ loinc_coding = <<>> THEN plain
        ELSE LET first == loinc_coding[1]
                 loinc_info == get_loinc_number_details(first.code)
                 label == first.code \o <<" ">> \o Underscored(first.display)
             IN  IF first.display = None
                 THEN [plain EXCEPT !.raise = "KeyError"]
                 ELSE IF loinc_info = {}
                 THEN [plain EXCEPT !.acquisition_label = label]
                 ELSE IF raw.valueQuantity = NoQuantity
                 THEN [plain EXCEPT !.acquisition_label = label,
                                    !.keys = {"observations"}]
                 ELSE IF raw.lastUpdated.fraction = None
                 \* strptime(..., '%Y-%m-%dT%H:%M:%S.%f%z')
                 THEN [plain EXCEPT !.raise = "ValueError"]
                 ELSE [plain EXCEPT
                         !.acquisition_label = label,
                         !.keys = {"observations"},
                         !.observations =
                            <<[name |-> (CHOOSE row \in loinc_info : TRUE).SHORTNAME,
                               value |-> raw.valueQuantity.value,
                               unit |-> raw.valueQuantity.unit,
                               last_updated |-> raw.lastUpdated]>>]

\* The attributes the constructor sets; patient is the raw resource of the
\* patient object, NoResource for "patient = None".
FHIRObject(raw, patient) ==
    LET has == patient # NoResource
        patient_id == IF has THEN patient.identifier ELSE None
        section == ObservationSection(raw)
    IN  [type              |-> raw.resourceType,
         patient_id        |-> patient_id,
         subject_code      |-> IF Truthy(patient_id) THEN <<"ex">> \o patient_id ELSE None,
         subject_firstname |-> IF has THEN patient.given ELSE None,
         subject_sex       |-> IF has THEN patient.gender ELSE None,
         subject_type      |-> IF ~has THEN None
                               ELSE IF patient.animal THEN <<"animal">> ELSE <<"human">>,
         dob               |-> IF has THEN patient.birthDate ELSE None,
         session_label     |-> <<"FHIR_">> \o patient_id \o <<"_">> \o raw.lastUpdated.date,
         acquisition_label |-> section.acquisition_label,
         extra_info        |-> [keys |-> section.keys, observations |-> section.observations]]

NoObject == [type |-> None]

NoAdapter ==
    [status |-> "idle", stack |-> <<>>, fetches |-> 0, fetched |-> {},
     built |-> NoObject, resource |-> NoResource]

gearVars == <<platformVars, procVars, mainVars, histVars, pkgVars>>

Frame(raw) == [raw |-> raw, at |-> "patient", patient |-> NoResource]

Top == adapter.stack[Len(adapter.stack)]

Resource(type, ref, gender, animal, coding, quantity, fraction) ==
    [resourceType |-> type, id |-> <<"r1">>, reference |-> ref,
     identifier |-> <<"p1">>, given |-> <<"Ann">>, birthDate |-> <<"1972-04-17">>,
     gender |-> gender, animal |-> animal, coding |-> coding,
     valueQuantity |-> quantity,
     lastUpdated |-> [date |-> <<"2019-07-02">>, time |-> <<"13:17:37">>,
                      fraction |-> fraction, zone |-> <<"+0000">>]]

Genders == {<<"female">>, <<"F">>, None}

\* What the store answers to the read of a Patient: a Patient resource, or,
\* of a store that does not keep to the type asked for, another resource.
PatientReads ==
    {Resource(<<"Patient">>, None, g, a, <<>>, NoQuantity, <<"265024">>) :
        g \in Genders, a \in BOOLEAN}
    \cup {Resource(<<"Encounter">>, r, None, FALSE, <<>>, NoQuantity, <<"265024">>) :
        r \in {None, <<"Patient", "/", "x">>}}

Codes == {<<"15074-8">>, <<"0000-0">>}

Codings ==
    {[system |-> sys, code |-> c, display |-> d] :
        sys \in {Loinc, <<"http://snomed.info/sct">>}, c \in Codes,
        d \in {<<"Glucose", "/", "Blood">>, None}}

Quantities == {NoQuantity, [value |-> <<"6.3">>, unit |-> <<"mmol/l">>]}

References == {None, <<"Patient", "/", "x">>, <<"Group", "/", "g">>}

\* The resources import_data reads for its references.
ImportedResources ==
    {Resource(<<"Patient">>, None, g, a, <<>>, NoQuantity, <<"265024">>) :
        g \in Genders, a \in BOOLEAN}
    \cup {Resource(<<"Encounter">>, r, None, FALSE, <<>>, NoQuantity, <<"265024">>) :
        r \in References}
    \cup {Resource(<<"Observation">>, r, None, FALSE, coding, q, f) :
        r \in References,
        coding \in {<<>>} \cup {<<c>> : c \in Codings}
                   \cup {<<c, d>> : c \in Codings, d \in Codings},
        q \in Quantities, f \in {<<"265024">>, None}}

\* resource_obj = FHIRResource(resource, self.hc_api, fhir_store)
FHIRResource_call ==
    /\ adapter.status = "idle"
    /\ \E resource \in ImportedResources :
          adapter' = [NoAdapter EXCEPT !.status = "running",
                                       !.stack = <<Frame(resource)>>,
                                       !.resource = resource]
    /\ UNCHANGED gearVars

\* The constructor finds the patient without a read: the resource itself,
\* or none ("SKIPPING").
FHIRResource_patient ==
    /\ adapter.status = "running"
    /\ Top.at = "patient"
    /\ ~ReadsPatient(Top.raw)
    /\ adapter' = [adapter EXCEPT
                     !.stack[Len(adapter.stack)] =
                        [Top EXCEPT !.at = "fields",
                                    !.patient = IF Top.raw.resourceType = <<"Patient">>
                                                THEN Top.raw ELSE NoResource]]
    /\ UNCHANGED gearVars

\* patient = FHIRResource(hc_api.fhirStores.fhir.read(...), ...): the read,
\* and the constructor called on what the store answered.
FHIRResource_read ==
    /\ adapter.status = "running"
    /\ Top.at = "patient"
    /\ ReadsPatient(Top.raw)
    /\ Len(adapter.stack) < MaxDepth
    /\ \E answer \in PatientReads :
          adapter' = [adapter EXCEPT !.stack = Append(@, Frame(answer)),
                                     !.fetches = @ + 1,
                                     !.fetched = @ \cup {answer}]
    /\ UNCHANGED gearVars

\* The rest of the constructor, from "self.patient_id = ..." on; the call
\* returns to the constructor that made it, or to import_data.
FHIRResource_fields ==
    /\ adapter.status = "running"
    /\ Top.at = "fields"
    /\ LET n == Len(adapter.stack)
       IN  IF ObservationSection(Top.raw).raise # "none"
           THEN adapter' = [adapter EXCEPT !.status = ObservationSection(Top.raw).raise]
           ELSE IF n = 1
           THEN adapter' = [adapter EXCEPT !.status = "done",
                                           !.stack = <<>>,
                                           !.built = FHIRObject(Top.raw, Top.patient)]
           ELSE adapter' = [adapter EXCEPT
                              !.stack = [SubSeq(@, 1, n - 1) EXCEPT
                                           ![n - 1] = [@ EXCEPT !.at = "fields",
                                                                !.patient = Top.raw]]]
    /\ UNCHANGED gearVars

---------------------------------------------------------------------------
(* The project as the gear finds it. *)

InitialSubjects ==
    { <<>>,
      <<[master_code |-> <<"mc", "p1">>, code |-> <<"old">>, firstname |-> <<"Eve">>]>>,
      <<[master_code |-> <<"mc", "p1">>, code |-> <<"old">>, firstname |-> None],
        [master_code |-> <<"mc", "p1">>, code |-> <<"exp1">>, firstname |-> <<"Ann">>]>> }

InitProcs ==
    /\ pc = [p \in Procs |-> "idle"]
    /\ cur = [p \in Procs |-> NoMeta]
    /\ subject = [p \in Procs |-> NoNode]
    /\ session = [p \in Procs |-> NoNode]
    /\ acq = [p \in Procs |-> NoNode]
    /\ matched = [p \in Procs |-> 0]
    /\ added = [p \in Procs |-> {}]
    /\ seen = [p \in Procs |-> 0]
    /\ exc = [p \in Procs |-> "none"]

InitPlatform ==
    /\ fw_subjects \in InitialSubjects
    /\ fw_sessions = <<>>
    /\ fw_acquisitions = <<>>
    /\ fw_files = {}

InitPkgIdle ==
    /\ series = NoSeries
    /\ dir = {}
    /\ staging = {}
    /\ acquisitions = {}
    /\ archives = {}
    /\ metadata_map = {}
    /\ pkg = "idle"

Init ==
    /\ InitPlatform
    /\ InitProcs
    /\ importer = "none"
    /\ refs = 0
    /\ budget = MaxItems
    /\ returned = {}
    /\ stopped = {}
    /\ InitPkgIdle
    /\ adapter = NoAdapter

Next ==
    \/ main_start
    \/ import_data_return
    \/ dicom_import_series
    \/ pkg_series_file
    \/ pkg_series_sorted
    \/ pkg_series_archive
    \/ pkg_series_return
    \/ dicom_next_archive
    \/ dicom_series_done
    \/ hl7_import_data
    \/ fhir_import_data
    \/ unwind
    \/ master_code(Main)
    \/ get_subject(Main)
    \/ add_subject(Main)
    \/ lookup_session(Main)
    \/ add_session(Main)
    \/ lookup_acquisition(Main)
    \/ add_acquisition(Main)
    \/ upload_file(Main)
    \/ upstream_error(Main)

Spec == Init /\ [][Next]_vars

---------------------------------------------------------------------------
(* pkg_series alone, on every small series directory. *)

\* Files of a series directory.
MaxFiles == 2

FileNames == {<<"(none)">>, <<"NA">>, <<"x">>}

\* os.path.getsize of a file, and its acquisition timestamp: before and
\* after 1980.
FileSizes == {1, 2}

FileTimes == {ZipEpoch - 1, ZipEpoch + 1}

\* Of a file that does not parse only the name matters.
PkgFiles ==
    {File(name, a, u, TRUE, size, time, <<"Brain">>) :
        name \in FileNames, a \in {1, 2}, u \in {<<"u1">>, <<"u2">>},
        size \in FileSizes, time \in FileTimes}
    \cup {File(name, 1, <<"u1">>, FALSE, 1, ZipEpoch, <<"Brain">>) : name \in FileNames}

RECURSIVE Directories(_)
\* The directories of at most n files: names are unique in a directory.
Directories(n) ==
    IF n = 0 THEN {{}}
    ELSE LET smaller == Directories(n - 1)
         IN  smaller \cup
             UNION {{d \cup {f} : f \in {g \in PkgFiles : \A h \in d : h.name # g.name}} :
                    d \in smaller}

InitPkg ==
    /\ InitPlatform
    /\ InitProcs
    /\ importer = "none"
    /\ refs = 0
    /\ budget = 0
    /\ returned = {}
    /\ stopped = {}
    /\ \E files \in Directories(MaxFiles) :
          /\ series = [open |-> TRUE, listing |-> files, taken |-> {}, id |-> 1,
                       dirs |-> {1}]
          /\ dir = files
    /\ staging = {}
    /\ acquisitions = {}
    /\ archives = {}
    /\ metadata_map = {}
    /\ pkg = "files"
    /\ adapter = NoAdapter

NextPkg ==
    \/ pkg_series_file
    \/ pkg_series_sorted
    \/ pkg_series_archive
    \/ pkg_series_return

SpecPkg == InitPkg /\ [][NextPkg]_vars

---------------------------------------------------------------------------
(* Two gear runs importing into the same project at the same time.         *)

ConcurrentItems == {HL7Metadata(msg) : msg \in {m \in HL7Messages : ~HL7Raises(m)}}

\* A gear run has an item's metadata in hand and turns to the identity service.
import_item(p) ==
    /\ pc[p] \in {"idle", "raised"}
    /\ budget > 0
    /\ budget' = budget - 1
    /\ \E meta \in ConcurrentItems : cur' = [cur EXCEPT ![p] = meta]
    /\ pc' = [pc EXCEPT ![p] = "master_code"]
    /\ subject' = [subject EXCEPT ![p] = NoNode]
    /\ session' = [session EXCEPT ![p] = NoNode]
    /\ acq' = [acq EXCEPT ![p] = NoNode]
    /\ matched' = [matched EXCEPT ![p] = 0]
    /\ added' = [added EXCEPT ![p] = {}]
    /\ seen' = [seen EXCEPT ![p] = 0]
    /\ exc' = [exc EXCEPT ![p] = "none"]
    /\ UNCHANGED <<adapter, platformVars, importer, refs, histVars, pkgVars>>

NextConc ==
    \E p \in Procs :
        \/ import_item(p)
        \/ master_code(p)
        \/ get_subject(p)
        \/ add_subject(p)
        \/ lookup_session(p)
        \/ add_session(p)
        \/ lookup_acquisition(p)
        \/ add_acquisition(p)
        \/ upload_file(p)

SpecConc == Init /\ [][NextConc]_vars

---------------------------------------------------------------------------
(* The gear run on a platform whose lookup can fail: the call raises an    *)
(* ApiException of a status other than "not found" (401, 403, 500, ...),   *)
(* whether the node exists or not.  "except flywheel.rest.ApiException"    *)
(* is the handler of both lookups.                                         *)

lookup_session_failed(p) ==
    /\ pc[p] = "lookup_session"
    /\ session' = [session EXCEPT ![p] = NoNode]
    /\ pc' = [pc EXCEPT ![p] = "add_session"]
    /\ seen' = [seen EXCEPT ![p] = Len(fw_sessions)]
    /\ UNCHANGED <<adapter, platformVars, cur, subject, acq, matched, added, exc, mainVars,
                   histVars, pkgVars>>

lookup_acquisition_failed(p) ==
    /\ pc[p] = "lookup_acquisition"
    /\ acq' = [acq EXCEPT ![p] = NoNode]
    /\ pc' = [pc EXCEPT ![p] = "add_acquisition"]
    /\ seen' = [seen EXCEPT ![p] = Len(fw_acquisitions)]
    /\ UNCHANGED <<adapter, platformVars, cur, subject, session, matched, added, exc,
                   mainVars, histVars, pkgVars>>

NextFault ==
    \/ Next
    \/ lookup_session_failed(Main)
    \/ lookup_acquisition_failed(Main)

SpecFault == Init /\ [][NextFault]_vars

---------------------------------------------------------------------------
(* The constructor of FHIRResource alone, on every small resource and     *)
(* every answer of the store.                                              *)

InitFhir ==
    /\ fw_subjects = <<>>
    /\ fw_sessions = <<>>
    /\ fw_acquisitions = <<>>
    /\ fw_files = {}
    /\ InitProcs
    /\ importer = "fhir"
    /\ refs = 0
    /\ budget = 0
    /\ returned = {}
    /\ stopped = {}
    /\ InitPkgIdle
    /\ adapter = NoAdapter

NextFhir ==
    \/ FHIRResource_call
    \/ FHIRResource_patient
    \/ FHIRResource_read
    \/ FHIRResource_fields

SpecFhir == InitFhir /\ [][NextFhir]_vars

---------------------------------------------------------------------------
(* Properties. *)

SlashFree(label) == Len(Split(label)) = 1

InItem(p) == pc[p] \in CallStates

\* C1: importing the same item a second time, after a first
\* create_target_hierarchy call for it has returned, adds no subject, session
\* or acquisition and returns the ids the first call returned.
C1_SecondImportCreatesNothing ==
    \A r \in returned :
        (pc[Main] = "upload" /\ r.metadata = cur[Main])
            => (added[Main] = {} /\ Hierarchy(Main) = r.hierarchy)

\* The same statement for items whose session and acquisition labels hold
\* no "/": this one the code keeps.
SecondImportCreatesNothingSlashFree ==
    \A r \in returned :
        (/\ pc[Main] = "upload"
         /\ r.metadata = cur[Main]
         /\ SlashFree(cur[Main].label)
         /\ SlashFree(cur[Main].acquisition))
            => (added[Main] = {} /\ Hierarchy(Main) = r.hierarchy)

C3_AmbiguousIdentityRaises ==
    \A p \in Procs :
        matched[p] >= 2
            => /\ pc[p] = "raised"
               /\ exc[p] = "TooManySubjects"
               /\ subject[p] = NoNode /\ session[p] = NoNode /\ acq[p] = NoNode
               /\ added[p] = {}
               /\ \A i \in Indexes(fw_sessions) :
                      fw_sessions[i].subject \notin ProjectSubjects(cur[p].master_code)
               /\ \A f \in fw_files : f.master_code # cur[p].master_code

C3_Witness ==
    /\ matched[Main] = 2
    /\ pc[Main] = "raised"
    /\ Len(fw_subjects) = 2

\* C4: a call for an item of which an earlier call stopped after creating
\* a node ends with exactly one subject, one session and one acquisition for
\* the item.
C4_PartialRunIsResumed ==
    (pc[Main] = "upload" /\ cur[Main] \in stopped)
        => /\ Cardinality(ProjectSubjects(cur[Main].master_code)) = 1
           /\ Cardinality(SessionsOf(subject[Main].n, cur[Main].label)) = 1
           /\ HasAcquisition(cur[Main])
                => Cardinality(AcquisitionsOf(session[Main].n, cur[Main].acquisition)) = 1

PartialRunIsResumedSlashFree ==
    (/\ pc[Main] = "upload"
     /\ cur[Main] \in stopped
     /\ SlashFree(cur[Main].label)
     /\ SlashFree(cur[Main].acquisition))
        => /\ Cardinality(ProjectSubjects(cur[Main].master_code)) = 1
           /\ Cardinality(SessionsOf(subject[Main].n, cur[Main].label)) = 1
           /\ HasAcquisition(cur[Main])
                => Cardinality(AcquisitionsOf(session[Main].n, cur[Main].acquisition)) = 1

SameSession(i, j) ==
    /\ fw_sessions[i].subject = fw_sessions[j].subject
    /\ fw_sessions[i].label = fw_sessions[j].label

SameAcquisition(i, j) ==
    /\ fw_acquisitions[i].session = fw_acquisitions[j].session
    /\ fw_acquisitions[i].label = fw_acquisitions[j].label

UniqueSubject(s) ==
    Cardinality(ProjectSubjects(fw_subjects[s].master_code)) = 1

\* C5: with two importers at work, two sessions of one label under one
\* subject (or two acquisitions of one label under one session) are always
\* the outcome of the race: the importer that created the later one did its
\* lookup before the earlier one existed.
C5_DoubleCreationIsTheRace ==
    /\ \A i, j \in Indexes(fw_sessions) :
          (/\ i < j
           /\ SameSession(i, j)
           /\ SlashFree(fw_sessions[i].label)
           /\ UniqueSubject(fw_sessions[i].subject))
              => fw_sessions[j].seen < i
    /\ \A i, j \in Indexes(fw_acquisitions) :
          (/\ i < j
           /\ SameAcquisition(i, j)
           /\ SlashFree(fw_acquisitions[i].label)
           /\ SlashFree(fw_sessions[fw_acquisitions[i].session].label)
           /\ UniqueSubject(fw_sessions[fw_acquisitions[i].session].subject))
              => fw_acquisitions[j].seen < i

C5_Witness ==
    /\ Len(fw_sessions) = 2
    /\ SameSession(1, 2)
    /\ SlashFree(fw_sessions[1].label)
    /\ UniqueSubject(fw_sessions[1].subject)
    /\ fw_sessions[2].seen = 0

\* C6: when an import_data loop has ended on a failure of one item, no
\* reference of its list is left unattempted.
C6_FailureIsLocalToItem ==
    importer = "aborted" => refs = 0

\* C7: no exception escapes import_data for a resource that has no patient
\* reference or whose reference is not to a Patient.
C7_ResourceWithoutPatientIsSkipped ==
    ~(pc[Main] = "raised" /\ exc[Main] = "AttributeError")

\* C8: every file of a series has parsed before the first archive of the
\* series is written, an item of the dicom loop is uploaded only after
\* pkg_series has returned, and of a series with a file that does not parse
\* no archive is written and none is taken for upload.
C8_MalformedFileAbandonsSeries ==
    /\ archives # {} => (dir = {} /\ \A f \in series.listing : f.ok)
    /\ (importer = "dicom" /\ InItem(Main)) => pkg = "returned"
    /\ (\E f \in series.listing : ~f.ok)
          => (archives = {} /\ metadata_map = {} /\ series.taken = {} /\ ~InItem(Main))

C8_Witness ==
    /\ importer = "dicom"
    /\ pkg = "raised"
    /\ staging # {}
    /\ \E f \in dir : ~f.ok

ListedAcqNos == {f.acq_no : f \in series.listing}

\* C9: pkg_series on a directory of parseable files returns, and the map it
\* returns has one entry per acquisition number of the directory.
C9_OneArchivePerAcquisitionNumber ==
    (pkg \in {"returned", "raised"} /\ \A f \in series.listing : f.ok)
        => /\ pkg = "returned"
           /\ Cardinality(metadata_map) = Cardinality(ListedAcqNos)

\* The same for directories whose acquisition numbers have each a uid of
\* its own.
OneArchivePerAcquisitionNumberDistinctUids ==
    (/\ pkg \in {"returned", "raised"}
     /\ \A f \in series.listing : f.ok
     /\ \A f, g \in series.listing :
           f.acq_no # g.acq_no => f.acquisition_uid # g.acquisition_uid)
        => /\ pkg = "returned"
           /\ Cardinality(metadata_map) = Cardinality(ListedAcqNos)

ArchivesHolding(f) ==
    {z \in archives : \E i \in 1..Len(z.members) : z.members[i].src = f.name}

ArchiveOfAcqNo(n) ==
    ArcPath((CHOOSE a \in acquisitions : a.acq_no = n).arcdir_path)

\* C10: when pkg_series has returned, every file of the directory is a
\* member of exactly one archive, the archive of its acquisition number.
C10_MembershipExhaustiveAndExclusive ==
    pkg = "returned"
        => \A f \in series.listing :
              /\ Cardinality(ArchivesHolding(f)) = 1
              /\ \A z \in ArchivesHolding(f) : z.path = ArchiveOfAcqNo(f.acq_no)

\* The same for directories without a file named by the '(none)' sentinel.
MembershipExhaustiveWithoutSentinel ==
    (pkg = "returned" /\ \A f \in series.listing : SafeName(f.name) = f.name)
        => \A f \in series.listing :
              /\ Cardinality(ArchivesHolding(f)) = 1
              /\ \A z \in ArchivesHolding(f) : z.path = ArchiveOfAcqNo(f.acq_no)

\* The file of the directory a staged file or an archive member was.
SourceOf(e) == CHOOSE f \in series.listing : f.name = e.src

Members(z) == {z.members[i] : i \in 1..Len(z.members)}

\* pkg_series has raised for a reason other than a timestamp: a file that
\* does not parse, or an arcdir that exists.
RaisedOnParseOrMkdir ==
    \E f \in dir :
        \/ ~f.ok
        \/ f.acq_no \notin AcqNos /\ \E a \in acquisitions : a.arcdir_path = ArcdirPath(f)

C12_MembersAscendingBySize ==
    \A z \in archives :
        \A i \in 1..(Len(z.members) - 1) : z.members[i].size <= z.members[i+1].size

C12_Witness ==
    /\ pkg = "returned"
    /\ \E z \in archives :
          /\ Len(z.members) = 2
          /\ z.members[1].size < z.members[2].size

\* The metadata pkg_series returns for the archive at path.
ReturnedFor(path) == (CHOOSE m \in metadata_map : m.path = path).metadata

Unchanged(old, new) ==
    /\ Len(new) >= Len(old)
    /\ \A i \in Indexes(old) : new[i] = old[i]

C16_AcquisitionCreatedWithoutFiles ==
    /\ \A i \in Indexes(fw_acquisitions) : fw_acquisitions[i].files = <<>>
    /\ \A f \in fw_files :
          f.node.level = "acquisition" => f.node.n \in Indexes(fw_acquisitions)
    /\ \A p \in Procs :
          (pc[p] = "upload" /\ cur[p].collection = "acquisition" /\ acq[p] # NoNode)
             => acq[p].n \in Indexes(fw_acquisitions)

C16_Witness ==
    /\ pc[Main] = "upload"
    /\ cur[Main].kind = "dicom"
    /\ cur[Main].files # <<>>
    /\ "acquisition" \in added[Main]
    /\ fw_acquisitions[acq[Main].n].files = <<>>

\* C17: at most one working directory exists, it is that of the series in
\* hand, and none exists when no series is in hand: between two series,
\* after the imaging loop, and after an exception has ended the run.
C17_WorkingDirectoryIsScoped ==
    /\ Cardinality(series.dirs) <= 1
    /\ series.dirs # {} => (series.open /\ importer = "dicom" /\ series.dirs = {series.id})
    /\ (pkg = "idle" \/ importer # "dicom") => series.dirs = {}
    /\ (dir # {} \/ staging # {} \/ archives # {}) => series.dirs # {}

C17_Witness ==
    /\ importer = "aborted"
    /\ exc[Main] = "PackagingError"
    /\ refs = 1
    /\ series.dirs = {}

\* C18 (as stated): whatever message the messaging loop reads, the adapter
\* yields metadata for it: HL7Message does not raise.
C18_EveryMessageYieldsMetadata ==
    ~(importer = "hl7" /\ pc[Main] = "raised" /\ exc[Main] = "TypeError")

\* The tree test_get_metadata asserts for the example message.
ExpectedExampleTree ==
    [label |-> <<"HL7_", "MRN-ZEN3H", "_", "2018-07-10">>,
     session_timestamp |-> <<"2018-07-10", "T", "06:54:58", "Z">>,
     code |-> <<"ex", "MRN-ZEN3H">>, firstname |-> <<"Firstname">>,
     lastname |-> <<"Lastname">>, sex |-> <<"female">>, type |-> <<"human">>,
     ethnicity |-> None,
     acquisition |-> <<"ORU">>,
     acquisition_timestamp |-> <<"2018-07-10", "T", "06:54:58", "Z">>]

FirstNonEmpty(msg) ==
    IF msg.f3 # None THEN msg.f3 ELSE IF msg.f3_1 # None THEN msg.f3_1 ELSE msg.f3_0_1

\* The fields C18 names, for every message of the store that carries a
\* patient id and a date of birth, and the example tree: these the adapter
\* delivers.
MessageMetadataAsDescribed ==
    /\ \A msg \in {m \in HL7Messages : ~HL7Raises(m)} :
          LET meta == HL7Metadata(msg)
          IN  /\ meta.patient_id = FirstNonEmpty(msg)
              /\ meta.code = <<"ex">> \o meta.patient_id
              /\ meta.label = <<"HL7_">> \o meta.patient_id \o <<"_", msg.sendTime[1]>>
              /\ meta.acquisition = msg.messageType
              /\ meta.session_timestamp = msg.sendTime
              /\ meta.acquisition_timestamp = msg.sendTime
              /\ meta.sex \in {<<"female">>, <<"male">>, <<"other">>, <<"unknown">>, None}
    /\ LET meta == HL7Metadata(ExampleMessage)
       IN  \A k \in DOMAIN ExpectedExampleTree : meta[k] = ExpectedExampleTree[k]

\* C19: a key of the metadata tree handed to create_target_hierarchy holds
\* a non-empty value (the timestamp of an imaging item is a number, which
\* is never null).
C19_NoNullInTree ==
    \A p \in Procs :
        pc[p] \in HierarchyStates
            => \A k \in cur[p].present \ {"timestamp"} : Truthy(cur[p][k])

\* The same for the trees of messages and structured resources.
NoNullInTreeOfMessagesAndResources ==
    \A p \in Procs :
        (pc[p] \in HierarchyStates /\ cur[p].kind # "dicom")
            => \A k \in cur[p].present : Truthy(cur[p][k])

\* C20: no file uploaded for an imaging item carries the raw patient_id in
\* its archive comment.
C20_PatientIdNotInUploadedComment ==
    \A f \in fw_files :
        f.comment.kind = "dicom" => "patient_id" \notin DOMAIN f.comment

\* The creation payloads carry no patient_id: no subject, session or
\* acquisition of the project has the key.
NoPatientIdInCreatedNodes ==
    /\ \A i \in Indexes(fw_subjects) : "patient_id" \notin DOMAIN fw_subjects[i]
    /\ \A i \in Indexes(fw_sessions) : "patient_id" \notin DOMAIN fw_sessions[i]
    /\ \A i \in Indexes(fw_acquisitions) : "patient_id" \notin DOMAIN fw_acquisitions[i]

RECURSIVE B64Encode(_)
\* The base64 digits of a sequence of bytes, three bytes at a time.
B64Encode(bytes) ==
    IF Len(bytes) < 3 THEN <<>>
    ELSE <<bytes[1] \div 4,
           (bytes[1] % 4) * 16 + bytes[2] \div 16,
           (bytes[2] % 16) * 4 + bytes[3] \div 64,
           bytes[3] % 64>>
         \o B64Encode(SubSeq(bytes, 4, Len(bytes)))

KeyRank(k) == CHOOSE i \in 1..Len(KeyOrder) : KeyOrder[i] = k

\* The name C21 gives the file of a structured resource.
ResourceFileName(raw) ==
    (IF raw.resourceType = <<"Patient">> THEN <<"patient">>
     ELSE IF raw.resourceType = <<"Encounter">> THEN <<"encounter">>
     ELSE raw.id) \o <<".fhir.json">>

\* C21: every uploaded file is named by the convention: an archive
\* '<acquisition uid>.dicom.zip'; a message '<control id>.hl7.txt', its
\* content the bytes its base64 data encodes; a resource '<name>.fhir.json',
\* the name being the lower-cased type for Patient and Encounter and the
\* resource id otherwise, its content the resource's keys and values, one
\* per line at indent 4, in ascending order of the keys.
C21_UploadedFileNames ==
    \A f \in fw_files :
        /\ f.source.kind = "dicom"
              => f.name = f.source.acquisition_uid \o <<".dicom", ".zip">>
        /\ f.source.kind = "hl7"
              => /\ f.name = f.source.controlId \o <<".hl7.txt">>
                 /\ B64Encode(f.content) = f.source.data
                 /\ Len(f.content) * 4 = Len(f.source.data) * 3
        /\ f.source.kind = "fhir"
              => /\ f.name = ResourceFileName(f.source.raw)
                 /\ Len(f.content) = Cardinality(DOMAIN f.source.raw)
                 /\ \A i \in 1..Len(f.content) :
                       /\ f.content[i].indent = 4
                       /\ f.content[i].value = f.source.raw[f.content[i].key]
                       /\ i > 1 => KeyRank(f.content[i-1].key) < KeyRank(f.content[i].key)

C21_Witness ==
    /\ \E f \in fw_files :
          /\ f.name = <<"51681348", ".hl7.txt">>
          /\ f.content = <<77, 83, 72>>
    /\ \E f \in fw_files :
          /\ f.name = <<"patient", ".fhir.json">>
          /\ f.node.level = "subject"

\* The constructor call of import_data is over, by return or by exception.
Constructed == adapter.status \notin {"idle", "running"}

\* The codings of the resource that are of the coding system and whose code
\* has a row in the table.
TableCodings(raw) ==
    {i \in 1..Len(raw.coding) :
        /\ raw.coding[i].system = Loinc
        /\ \E row \in LoincTable : row.LOINC_NUM = raw.coding[i].code}

\* extra_info.observations is one entry, that of a coding in the table.
OneObservation(raw, extra_info) ==
    /\ "observations" \in extra_info.keys
    /\ Len(extra_info.observations) = 1
    /\ \E i \in TableCodings(raw) : \E row \in LoincTable :
          /\ row.LOINC_NUM = raw.coding[i].code
          /\ extra_info.observations[1] =
                [name |-> row.SHORTNAME, value |-> raw.valueQuantity.value,
                 unit |-> raw.valueQuantity.unit, last_updated |-> raw.lastUpdated]

\* C22: constructed for an Observation that has a coding of the system with
\* its code in the table and a valueQuantity, the object holds exactly one
\* observations entry {value, unit, last_updated} under the short name;
\* constructed for one that has no such coding, the constructor returns and
\* the object has no observations entry.
C22_ObservationExtraction ==
    (Constructed /\ adapter.resource.resourceType = <<"Observation">>)
        => LET raw == adapter.resource
           IN  /\ (TableCodings(raw) # {} /\ raw.valueQuantity # NoQuantity)
                     => /\ adapter.status = "done"
                        /\ OneObservation(raw, adapter.built.extra_info)
               /\ TableCodings(raw) = {}
                     => /\ adapter.status = "done"
                        /\ "observations" \notin adapter.built.extra_info.keys

\* A resource with at most one coding of the system, that one with a
\* display, and a time of last update with a fraction of a second.
PlainObservation(raw) ==
    /\ Cardinality({i \in 1..Len(raw.coding) : raw.coding[i].system = Loinc}) <= 1
    /\ \A i \in 1..Len(raw.coding) :
          raw.coding[i].system = Loinc => raw.coding[i].display # None
    /\ raw.lastUpdated.fraction # None

\* The statement of C22 for such resources: this the constructor keeps.
ObservationExtractionOfPlainObservation ==
    (/\ Constructed
     /\ adapter.resource.resourceType = <<"Observation">>
     /\ PlainObservation(adapter.resource))
        => LET raw == adapter.resource
           IN  /\ (TableCodings(raw) # {} /\ raw.valueQuantity # NoQuantity)
                     => /\ adapter.status = "done"
                        /\ OneObservation(raw, adapter.built.extra_info)
               /\ TableCodings(raw) = {}
                     => /\ adapter.status = "done"
                        /\ "observations" \notin adapter.built.extra_info.keys

\* C23: constructing the adapter reads the store at most once, for the
\* referenced Patient, and no constructor call is nested deeper than that
\* of the Patient read, whatever the store answers; constructing it for a
\* Patient resource reads nothing.
C23_PatientResolutionIsOneHop ==
    /\ adapter.fetches <= 1
    /\ Len(adapter.stack) <= 2
    /\ adapter.resource.resourceType = <<"Patient">> => adapter.fetches = 0

\* The same of a store that answers the read of a Patient with a Patient
\* resource: this the constructor keeps.
OneHopWhenStoreAnswersPatients ==
    (\A answer \in adapter.fetched : answer.resourceType = <<"Patient">>)
        => /\ adapter.fetches <= 1
           /\ Len(adapter.stack) <= 2
           /\ adapter.resource.resourceType = <<"Patient">> => adapter.fetches = 0

SexValues == {<<"female">>, <<"male">>, <<"other">>, <<"unknown">>}

TypeValues == {<<"human">>, <<"animal">>}

\* C24: in the tree get_metadata makes of a constructed resource object,
\* subject.sex, when present, is one of female, male, other, unknown, and
\* subject.type, when present, is human or animal.
C24_SexAndTypeInEnumeration ==
    adapter.status = "done"
        => LET obj == adapter.built
               present == get_metadata([sex |-> obj.subject_sex, type |-> obj.subject_type])
           IN  /\ "sex" \in present => obj.subject_sex \in SexValues
               /\ "type" \in present => obj.subject_type \in TypeValues

\* The same of the tree of a message: an unmapped sex code is not in it.
SexAndTypeOfMessagesInEnumeration ==
    \A p \in Procs :
        cur[p].kind = "hl7"
            => /\ "sex" \in cur[p].present => cur[p].sex \in SexValues
               /\ "type" \in cur[p].present => cur[p].type \in TypeValues

\* C25: a session is about to be created only when the lookup of its path
\* finds nothing, and an acquisition likewise, so that in a sequential run no
\* two sessions of one label are under one subject and no two acquisitions
\* of one label under one session (labels without "/", one subject per
\* master_code).
C25_CreatedOnlyOnNotFound ==
    /\ pc[Main] = "add_session"
          => Resolve(subject[Main], SessionPath(cur[Main])) = NoNode
    /\ pc[Main] = "add_acquisition"
          => Resolve(subject[Main], AcquisitionPath(cur[Main])) = NoNode
    /\ \A i, j \in Indexes(fw_sessions) :
          (/\ i < j
           /\ SameSession(i, j)
           /\ SlashFree(fw_sessions[i].label))
              => ~UniqueSubject(fw_sessions[i].subject)
    /\ \A i, j \in Indexes(fw_acquisitions) :
          (/\ i < j
           /\ SameAcquisition(i, j)
           /\ SlashFree(fw_acquisitions[i].label)
           /\ SlashFree(fw_sessions[fw_acquisitions[i].session].label))
              => ~UniqueSubject(fw_sessions[fw_acquisitions[i].session].subject)

\* The same of a platform whose lookups raise only for "not found".
CreatedOnlyOnNotFoundWhenLookupsAnswer ==
    /\ pc[Main] = "add_session"
          => Resolve(subject[Main], SessionPath(cur[Main])) = NoNode
    /\ pc[Main] = "add_acquisition"
          => Resolve(subject[Main], AcquisitionPath(cur[Main])) = NoNode
    /\ \A i, j \in Indexes(fw_sessions) :
          (i < j /\ SameSession(i, j) /\ SlashFree(fw_sessions[i].label))
              => ~UniqueSubject(fw_sessions[i].subject)

\* The external calls of one item, each with the calls that may follow it.
CallOrder ==
    {<<"idle", "master_code">>, <<"raised", "master_code">>,
     <<"master_code", "get_subject">>,
     <<"get_subject", "add_subject">>, <<"get_subject", "lookup_session">>,
     <<"add_subject", "lookup_session">>,
     <<"lookup_session", "add_session">>, <<"lookup_session", "lookup_acquisition">>,
     <<"lookup_session", "upload">>,
     <<"add_session", "lookup_acquisition">>, <<"add_session", "upload">>,
     <<"lookup_acquisition", "add_acquisition">>, <<"lookup_acquisition", "upload">>,
     <<"add_acquisition", "upload">>}

\* C26: for every item the calls come in the order identity exchange,
\* subject query, creations, upload, the upload following the resolution of
\* the item's last level; the one upload of an item puts its file on the
\* node that the hierarchy resolution returned for the item's collection
\* and ends the item; no file is put anywhere by another step.
C26_CallsInOrder ==
    [][/\ \A p \in Procs :
             /\ (pc'[p] # pc[p] /\ pc'[p] \in CallStates)
                   => <<pc[p], pc'[p]>> \in CallOrder
             /\ (pc[p] # "upload" /\ pc'[p] = "upload")
                   => (HasAcquisition(cur[p])
                          <=> pc[p] \in {"lookup_acquisition", "add_acquisition"})
             /\ (pc[p] = "upload" /\ pc'[p] = "idle")
                   => /\ \E f \in fw_files' :
                            /\ f.node = Hierarchy(p)[cur[p].collection]
                            /\ f.name = cur[p].filename
                            /\ f.source = cur[p].source
                      /\ Cardinality(fw_files' \ fw_files) <= 1
                      /\ [metadata |-> cur[p], hierarchy |-> Hierarchy(p)] \in returned'
                      /\ cur'[p] = NoMeta
       /\ fw_files' # fw_files
             => \E p \in Procs : pc[p] = "upload" /\ pc'[p] = "idle"]_vars

C26_Witness ==
    /\ pc[Main] = "idle"
    /\ importer = "fhir"
    /\ \E f \in fw_files : f.source.kind = "dicom" /\ f.node.level = "acquisition"
    /\ \E f \in fw_files : f.source.kind = "fhir" /\ f.node.level = "session"

\* The resource in hand is referenced as Patient or Encounter.
PatientOrEncounter(meta) ==
    /\ meta.kind = "fhir"
    /\ meta.source.raw.resourceType \in {<<"Patient">>, <<"Encounter">>}

\* The level C27 names for the file of a resource.
LevelOf(resourceType) ==
    CASE resourceType = <<"Patient">>   -> "subject"
      [] resourceType = <<"Encounter">> -> "session"
      [] OTHER                          -> "acquisition"

\* C27: an acquisition is looked up or created only for an item that
\* carries one; for a resource referenced as Patient or Encounter none is,
\* and the acquisition of the hierarchy is null; the file of a resource is
\* on the subject for Patient, the session for Encounter, the acquisition
\* otherwise; the node an upload is made to is never null.
C27_AcquisitionOnlyWhenCarried ==
    /\ \A p \in Procs :
          /\ pc[p] \in {"lookup_acquisition", "add_acquisition"}
                => (HasAcquisition(cur[p]) /\ ~PatientOrEncounter(cur[p]))
          /\ (InItem(p) /\ PatientOrEncounter(cur[p]))
                => (acq[p] = NoNode /\ "acquisition" \notin added[p])
          /\ pc[p] = "upload"
                => /\ Hierarchy(p)[cur[p].collection] # NoNode
                   /\ Hierarchy(p)[cur[p].collection].level = cur[p].collection
                   /\ cur[p].kind = "fhir"
                         => cur[p].collection = LevelOf(cur[p].source.raw.resourceType)
    /\ \A f \in fw_files :
          /\ f.node # NoNode
          /\ f.source.kind = "fhir" => f.node.level = LevelOf(f.source.raw.resourceType)

C27_Witness ==
    /\ pc[Main] = "upload"
    /\ cur[Main].kind = "fhir"
    /\ cur[Main].collection = "session"
    /\ "session" \in added[Main]
    /\ acq[Main] = NoNode
    /\ \E f \in fw_files : f.node.level = "subject"

\* The identity payload of the item in hand is well formed.
WellFormed(payload) ==
    /\ payload.use_patient_id <=> Truthy(payload.patient_id)
    /\ ~payload.use_patient_id
          => /\ Truthy(payload.first_name)
             /\ Truthy(payload.last_name)
             /\ Truthy(payload.date_of_birth)

\* C28: the identity payload of every item, on all three import paths, has
\* use_patient_id true exactly when its patient_id is non-empty, an item
\* without a patient id carrying its names and date of birth; and no item
\* fails for want of a patient id.
C28_IdentityPayloadWellFormed ==
    /\ \A p \in Procs :
          pc[p] = "master_code" => WellFormed(subj_code_payload(cur[p]))
    /\ ~(importer = "hl7" /\ pc[Main] = "raised" /\ exc[Main] = "TypeError"
         /\ cur[Main] = NoMeta)

\* The same of the payloads of messages and structured resources that
\* reach the identity exchange: these are well formed.
PayloadOfMessagesAndResourcesWellFormed ==
    \A p \in Procs :
        (pc[p] = "master_code" /\ cur[p].kind # "dicom")
            => WellFormed(subj_code_payload(cur[p]))

Duplicated(subjects) ==
    \E i, j \in Indexes(subjects) :
        i < j /\ subjects[i].master_code = subjects[j].master_code

\* The project held two subjects of one master_code before any import: the
\* subjects of the project as found stay at the head of the list.
StartedWithDuplicates ==
    \E found \in InitialSubjects :
        /\ Duplicated(found)
        /\ Len(fw_subjects) >= Len(found)
        /\ SubSeq(fw_subjects, 1, Len(found)) = found

\* C29: in a project that had no two subjects of one master_code when the
\* imports started, there are never two subjects of one master_code, and no
\* import fails on too many matches.
C29_OneSubjectPerMasterCode ==
    ~StartedWithDuplicates
        => /\ ~Duplicated(fw_subjects)
           /\ \A p \in Procs : exc[p] # "TooManySubjects"

\* The ids of a returned hierarchy are one chain of the project's tree, for
\* the item they were returned for.
OneChain(metadata, hierarchy) ==
    /\ hierarchy.subject.level = "subject"
    /\ hierarchy.subject.n \in Indexes(fw_subjects)
    /\ fw_subjects[hierarchy.subject.n].master_code = metadata.master_code
    /\ hierarchy.session.level = "session"
    /\ hierarchy.session.n \in Indexes(fw_sessions)
    /\ fw_sessions[hierarchy.session.n].subject = hierarchy.subject.n
    /\ fw_sessions[hierarchy.session.n].label = metadata.label
    /\ hierarchy.acquisition # NoNode
          => /\ hierarchy.acquisition.level = "acquisition"
             /\ hierarchy.acquisition.n \in Indexes(fw_acquisitions)
             /\ fw_acquisitions[hierarchy.acquisition.n].session = hierarchy.session.n

\* C30: the subject, session and acquisition that create_target_hierarchy
\* returned for an item are one chain: the subject carries the item's
\* master_code, the session is under that subject and has the item's
\* session label, the acquisition, when there is one, is under that
\* session.
C30_ReturnedIdsFormOneChain ==
    \A r \in returned : OneChain(r.metadata, r.hierarchy)

===========================================================================
